---- MODULE Spec2Model ----
(***************************************************************************)
(* Model of packages/backend/src/peripherals/database/CachedDataRepository *)
(* .ts: the DetailedTvlController (sync gate, concurrent fetches, gap      *)
(* filling, grouping, response generation).                                *)
(*                                                                         *)
(* Time is counted in hours.  A UnixTime that is undefined is NoTimestamp. *)
(***************************************************************************)
EXTENDS Integers, Sequences, FiniteSets, TLC

VARIABLES
    statusRepo,       \* aggregated report status table, as its two queries see it
    db,               \* report / balance / price tables (fixed during a behaviour)
    options,          \* DetailedTvlControllerOptions of the controller instance
    op,               \* public operation of the request in flight, or "none"
    args,             \* arguments of the request in flight
    pc,               \* position of the request in its handler
    counts,           \* value findCountsForHash resolved with
    timings,          \* value getDataTimings returned
    fetchState,       \* role -> "idle" | "pending" | "done" | "failed"
    fetchResult,      \* role -> rows the fetch resolved with
    arrival,          \* roles in the order their fetches settled
    calls,            \* storage calls issued by the request, in order
    result,           \* what the operation returned (or that it threw)
    fin,              \* rows and latest timestamp handed to the reconciliation pipeline
    fout,             \* its outputs
    cache,            \* cached_data table and what its repository last returned
    kroma             \* Kroma chain as the proposer script sees it, and the script

vars == <<statusRepo, db, options, op, args, pc, counts, timings,
          fetchState, fetchResult, arrival, calls, result, fin, fout,
          cache, kroma>>

----------------------------------------------------------------------------
(* Bounds of the model *)

MaxStatusRows == 2      \* rows a writer may add to an empty status table
MaxClock == 3           \* seconds the clock of the cache repository runs for
MaxBonded == 2          \* Bonded events of the script's address on the chain
MaxFillRows == 2        \* rows per resolution handed to the gap filler

(* undefined UnixTime *)
NoTimestamp == -1

(* Timestamps the status writer stamps rows with *)
StatusTimestamps == {1000, 1001}

----------------------------------------------------------------------------
(* Configuration of the controller instance: this.projects, this.tokens *)

projects == <<"p1", "p2">>
tokens == <<[id |-> "a1", symbol |-> "ETH", decimals |-> 1]>>

UnknownProject == "px"
UnknownAsset == "ax"
ProjectArgs == {"p1", UnknownProject}
AssetArgs == {"a1", UnknownAsset}

Range(f) == {f[x] : x \in DOMAIN f}

RECURSIVE Concat(_)
Concat(ss) == IF ss = <<>> THEN <<>> ELSE Head(ss) \o Concat(Tail(ss))

RECURSIVE SumOf(_)
SumOf(ns) == IF ns = <<>> THEN 0 ELSE Head(ns) + SumOf(Tail(ns))

(* ascending sequence of the members of a finite set of integers *)
RECURSIVE SortedSeq(_)
SortedSeq(S) ==
    IF S = {} THEN <<>>
    ELSE LET m == CHOOSE x \in S : \A y \in S : x <= y
         IN  <<m>> \o SortedSeq(S \ {m})

projectIds == [i \in 1..Len(projects) |-> projects[i]]

----------------------------------------------------------------------------
(* Storage collaborator: AggregatedReportStatusRepository *)

EmptyStatus == [matching |-> 0, different |-> 0, latest |-> NoTimestamp]

(* { matching, different } for the configured aggregatedConfigHash *)
findCountsForHash(repo) ==
    [matching |-> repo.matching, different |-> repo.different]

findLatestTimestamp(repo) == repo.latest

(* a row with the given hash status is added for timestamp ts *)
addStatus(repo, kind, ts) ==
    [matching  |-> repo.matching + (IF kind = "matching" THEN 1 ELSE 0),
     different |-> repo.different + (IF kind = "different" THEN 1 ELSE 0),
     latest    |-> IF ts > repo.latest THEN ts ELSE repo.latest]

----------------------------------------------------------------------------
(* Storage collaborator: report, balance and price tables *)

Resolutions == {"hourly", "sixHourly", "daily"}

AggRow(p, vt, ts, asset, usd) ==
    [projectId |-> p, valueType |-> vt, timestamp |-> ts,
     valueAsset |-> asset, valueUsd |-> usd]

ReportRow(p, a, vt, ts, asset, usd) ==
    [projectId |-> p, chainId |-> 1, assetId |-> a, valueType |-> vt,
     timestamp |-> ts, valueAsset |-> asset, valueUsd |-> usd]

FromTimestamp(rows, from) == SelectSeq(rows, LAMBDA r : r.timestamp >= from)

AtTimestamp(rows, ts) == SelectSeq(rows, LAMBDA r : r.timestamp = ts)

ForDetailed(rows, a) ==
    SelectSeq(rows, LAMBDA r : /\ r.projectId = a.projectId
                               /\ r.chainId = a.chainId
                               /\ r.assetId = a.assetId
                               /\ r.valueType = a.assetType)

(* the rows a storage call resolves with *)
StorageRead(d, call) ==
    CASE call.name = "getHourlyWithAnyType" ->
            FromTimestamp(d.aggregated.hourly, call.timestamp)
      [] call.name = "getSixHourlyWithAnyType" ->
            FromTimestamp(d.aggregated.sixHourly, call.timestamp)
      [] call.name = "getDailyWithAnyType" -> d.aggregated.daily
      [] call.name = "reportRepository.getByTimestamp" ->
            AtTimestamp(d.reports.hourly, call.timestamp)
      [] call.name = "getHourlyForDetailed" ->
            FromTimestamp(ForDetailed(d.reports.hourly, call), call.timestamp)
      [] call.name = "getSixHourlyForDetailed" ->
            FromTimestamp(ForDetailed(d.reports.sixHourly, call), call.timestamp)
      [] call.name = "getDailyForDetailed" ->
            ForDetailed(d.reports.daily, call)
      [] call.name = "balanceRepository.getByTimestamp" ->
            AtTimestamp(d.balances, call.timestamp)
      [] call.name = "priceRepository.getByTimestamp" ->
            AtTimestamp(d.prices, call.timestamp)

----------------------------------------------------------------------------
(* GapFiller: utils/getHourlyMinTimestamp, utils/getSixHourlyMinTimestamp, *)
(* timerange.fillAllMissingAggregatedReports / fillAllMissingAssetReports  *)

HourlyWindow == 2        \* hours of history kept at hourly resolution
SixHourlyWindow == 12    \* hours of history kept at six-hourly resolution
Genesis == 952           \* oldest daily timestamp

step(R) ==
    CASE R = "hourly" -> 1
      [] R = "sixHourly" -> 6
      [] R = "daily" -> 24

getHourlyMinTimestamp(latest) == latest - HourlyWindow

getSixHourlyMinTimestamp(latest) == latest - SixHourlyWindow

minTimestamp(R, latest) ==
    CASE R = "hourly" -> getHourlyMinTimestamp(latest)
      [] R = "sixHourly" -> getSixHourlyMinTimestamp(latest)
      [] R = "daily" -> Genesis

(* the expected slots of a window [min, max], ascending *)
slotsBetween(min, max, stp) ==
    IF max < min THEN <<>>
    ELSE [k \in 1..((max - min) \div stp + 1) |-> min + (k - 1) * stp]

slots(R, latest) == slotsBetween(minTimestamp(R, latest), latest, step(R))

aggregatedPlaceholder(key, ts) == AggRow(key, "TVL", ts, 0, 0)

(* one project's rows of one resolution, one slot after the other: the rows *)
(* of the slot (one per value type), or a placeholder when it has none      *)
fillMissingAggregatedReports(key, rows, slts) ==
    Concat([k \in DOMAIN slts |->
        LET at == SelectSeq(rows, LAMBDA r : /\ r.projectId = key
                                             /\ r.timestamp = slts[k])
        IN  IF at = <<>> THEN <<aggregatedPlaceholder(key, slts[k])>> ELSE at])

fillAllMissingAggregatedReports(ids, reports, latestTimestamp) ==
    LET fill(R) ==
            Concat([i \in DOMAIN ids |->
                fillMissingAggregatedReports(ids[i], reports[R],
                                             slots(R, latestTimestamp))])
    IN  [filledHourlyReports    |-> fill("hourly"),
         filledSixHourlyReports |-> fill("sixHourly"),
         filledDailyReports     |-> fill("daily")]

(* the rows of one slot summed into one report of the asset *)
fillMissingAssetReports(asset, projectId, rows, slts) ==
    [k \in DOMAIN slts |->
        LET at == SelectSeq(rows, LAMBDA r : r.timestamp = slts[k])
        IN  [projectId  |-> projectId,
             assetId    |-> asset.id,
             timestamp  |-> slts[k],
             valueAsset |-> SumOf([i \in DOMAIN at |-> at[i].valueAsset]),
             valueUsd   |-> SumOf([i \in DOMAIN at |-> at[i].valueUsd])]]

fillAllMissingAssetReports(asset, projectId, reports, latestTimestamp) ==
    LET fill(R) == fillMissingAssetReports(asset, projectId, reports[R],
                                           slots(R, latestTimestamp))
    IN  [filledHourlyReports    |-> fill("hourly"),
         filledSixHourlyReports |-> fill("sixHourly"),
         filledDailyReports     |-> fill("daily")]

----------------------------------------------------------------------------
(* Grouper: detailedTvl.groupByProjectIdAndTimestamp / ...AndAssetType *)

groupByProjectIdAndTimestamp(rows) ==
    [p \in {rows[i].projectId : i \in DOMAIN rows} |->
        [ts \in {rows[i].timestamp : i \in {j \in DOMAIN rows : rows[j].projectId = p}} |->
            SelectSeq(rows, LAMBDA r : r.projectId = p /\ r.timestamp = ts)]]

groupByProjectIdAndAssetType(rows) ==
    [p \in {rows[i].projectId : i \in DOMAIN rows} |->
        [a \in {rows[i].assetId : i \in {j \in DOMAIN rows : rows[j].projectId = p}} |->
            SelectSeq(rows, LAMBDA r : r.projectId = p /\ r.assetId = a)]]

(* value-type deduplication: the reports of one group reduced by summation *)
sumReports(group) ==
    [valueAsset |-> SumOf([i \in DOMAIN group |-> group[i].valueAsset]),
     valueUsd   |-> SumOf([i \in DOMAIN group |-> group[i].valueUsd])]

----------------------------------------------------------------------------
(* ResponseGenerator: generateDetailedTvlApiResponse, getProjectAssetChartData *)

(* chart rows (timestamp, asset amount, usd value), ascending by timestamp *)
projectChart(grouped, p) ==
    IF p \notin DOMAIN grouped THEN <<>>
    ELSE LET tss == SortedSeq(DOMAIN grouped[p])
         IN  [k \in DOMAIN tss |->
                 LET sum == sumReports(grouped[p][tss[k]])
                 IN  <<tss[k], sum.valueAsset, sum.valueUsd>>]

projectTokens(groupedLatest, p) ==
    IF p \notin DOMAIN groupedLatest THEN <<>>
    ELSE [a \in DOMAIN groupedLatest[p] |-> sumReports(groupedLatest[p][a])]

generateDetailedTvlApiResponse(hourly, sixHourly, daily, latest, ids) ==
    [p \in Range(ids) |->
        [hourly    |-> projectChart(hourly, p),
         sixHourly |-> projectChart(sixHourly, p),
         daily     |-> projectChart(daily, p),
         tokens    |-> projectTokens(latest, p)]]

(* a stored integer amount read with the given number of decimals *)
asNumber(units, decimals) == [units |-> units, decimals |-> decimals]

getProjectAssetChartData(filled, decimals) ==
    [k \in DOMAIN filled |->
        <<filled[k].timestamp,
          asNumber(filled[k].valueAsset, decimals),
          filled[k].valueUsd>>]

----------------------------------------------------------------------------
(* BreakdownMerger: detailedTvl.getNonCanonicalAssetsBreakdown,            *)
(* getCanonicalAssetsBreakdown, groupAndMergeBreakdowns                    *)

getNonCanonicalAssetsBreakdown(latestReports, tkns, type) ==
    LET known == {tkns[i].id : i \in DOMAIN tkns}
        rows == SelectSeq(latestReports,
                          LAMBDA r : r.valueType = type /\ r.assetId \in known)
    IN  [k \in DOMAIN rows |->
            [projectId |-> rows[k].projectId, assetId |-> rows[k].assetId,
             amount |-> rows[k].valueAsset, usdValue |-> rows[k].valueUsd]]

getCanonicalAssetsBreakdown(balances, prices, prjs) ==
    LET priced(b) == \E i \in DOMAIN prices : prices[i].assetId = b.assetId
        priceOf(b) == prices[CHOOSE i \in DOMAIN prices :
                                 prices[i].assetId = b.assetId].priceUsd
        rows == SelectSeq(balances,
                          LAMBDA b : b.projectId \in Range(prjs) /\ priced(b))
    IN  [k \in DOMAIN rows |->
            [projectId |-> rows[k].projectId, assetId |-> rows[k].assetId,
             amount |-> rows[k].balance,
             usdValue |-> rows[k].balance * priceOf(rows[k])]]

groupAndMergeBreakdowns(prjs, b) ==
    LET of(entries, p) == SelectSeq(entries, LAMBDA e : e.projectId = p)
    IN  [p \in Range(prjs) |->
            [canonical |-> of(b.canonical, p),
             native    |-> of(b.native, p),
             external  |-> of(b.external, p)]]

----------------------------------------------------------------------------
(* DetailedTvlController: pure parts of the handlers *)

NoArgs == [projectId |-> "-", chainId |-> 0, assetId |-> "-", assetType |-> "-"]
NoCounts == [matching |-> -1, different |-> -1]
NoTimings == [syncedReportsAmount |-> -1, unsyncedReportsAmount |-> -1,
              isSynced |-> FALSE, latestTimestamp |-> NoTimestamp,
              resolved |-> FALSE]
NoResult == [result |-> "none"]
Thrown == [result |-> "thrown", error |-> "STORAGE_FAILURE"]
ErrorResult(code) == [result |-> "error", error |-> code]


(* isSynced tolerating one unsynced report *)
isSyncedOffByOne(unsyncedReportsAmount) == unsyncedReportsAmount <= 1

(* const isSynced = unsyncedReportsAmount === 0 *)
isSynced(unsyncedReportsAmount) == unsyncedReportsAmount = 0


(* getDataTimings reporting "synced" only when a latest timestamp exists *)
getDataTimingsNeedingData(c, latestTimestamp) ==
    [syncedReportsAmount   |-> c.matching,
     unsyncedReportsAmount |-> c.different,
     isSynced              |-> c.different = 0 /\ latestTimestamp # NoTimestamp,
     latestTimestamp       |-> latestTimestamp,
     resolved              |-> TRUE]

(* the record getDataTimings returns, from what its two reads resolved with *)
getDataTimings(c, latestTimestamp) ==
    [syncedReportsAmount   |-> c.matching,
     unsyncedReportsAmount |-> c.different,
     isSynced              |-> isSynced(c.different),
     latestTimestamp       |-> latestTimestamp,
     resolved              |-> TRUE]


(* the early returns with the sync check ahead of the no-data check *)
syncGateSyncFirst(t, opts) ==
    IF ~t.isSynced /\ opts.errorOnUnsyncedDetailedTvl
    THEN "DATA_NOT_FULLY_SYNCED"
    ELSE IF t.latestTimestamp = NoTimestamp THEN "NO_DATA"
    ELSE "pass"

(* the early returns with the option left out of the sync check *)
syncGateIgnoringOption(t, opts) ==
    IF t.latestTimestamp = NoTimestamp THEN "NO_DATA"
    ELSE IF ~t.isSynced THEN "DATA_NOT_FULLY_SYNCED"
    ELSE "pass"

(* the two early returns that follow `await this.getDataTimings()` *)
syncGate(t, opts) ==
    IF t.latestTimestamp = NoTimestamp THEN "NO_DATA"
    ELSE IF ~t.isSynced /\ opts.errorOnUnsyncedDetailedTvl
         THEN "DATA_NOT_FULLY_SYNCED"
         ELSE "pass"

(* this.tokens.find((t) => t.id === assetId) / this.projects.find(...) *)
findAsset(assetId) == {i \in DOMAIN tokens : tokens[i].id = assetId}
findProject(projectId) == {i \in DOMAIN projects : projects[i] = projectId}


(* the validation looking up the project only *)
isValidProjectOnly(projectId, assetId) == findProject(projectId) # {}

isValidProjectAndAsset(projectId, assetId) ==
    findAsset(assetId) # {} /\ findProject(projectId) # {}

(* the storage calls inside each Promise.all([...]), in array order *)
tvlFetches(latestTimestamp) ==
    << [name |-> "getHourlyWithAnyType",
        timestamp |-> getHourlyMinTimestamp(latestTimestamp)],
       [name |-> "getSixHourlyWithAnyType",
        timestamp |-> getSixHourlyMinTimestamp(latestTimestamp)],
       [name |-> "getDailyWithAnyType"],
       [name |-> "reportRepository.getByTimestamp",
        timestamp |-> latestTimestamp] >>

assetFetches(a, latestTimestamp) ==
    << [name |-> "getHourlyForDetailed", projectId |-> a.projectId,
        chainId |-> a.chainId, assetId |-> a.assetId, assetType |-> a.assetType,
        timestamp |-> getHourlyMinTimestamp(latestTimestamp)],
       [name |-> "getSixHourlyForDetailed", projectId |-> a.projectId,
        chainId |-> a.chainId, assetId |-> a.assetId, assetType |-> a.assetType,
        timestamp |-> getSixHourlyMinTimestamp(latestTimestamp)],
       [name |-> "getDailyForDetailed", projectId |-> a.projectId,
        chainId |-> a.chainId, assetId |-> a.assetId, assetType |-> a.assetType] >>

breakdownFetches(latestTimestamp) ==
    << [name |-> "reportRepository.getByTimestamp", timestamp |-> latestTimestamp],
       [name |-> "balanceRepository.getByTimestamp", timestamp |-> latestTimestamp],
       [name |-> "priceRepository.getByTimestamp", timestamp |-> latestTimestamp] >>

fetchesOf(o, a, latestTimestamp) ==
    CASE o = "tvl" -> tvlFetches(latestTimestamp)
      [] o = "asset" -> assetFetches(a, latestTimestamp)
      [] o = "breakdown" -> breakdownFetches(latestTimestamp)


(* a join that waits for every input and treats a rejection as settled *)
promiseAllSettled(states) ==
    IF \A i \in DOMAIN states : states[i] \in {"done", "failed"}
    THEN "fulfilled"
    ELSE "pending"

(* Promise.all: rejected as soon as one input rejects, fulfilled when all did *)
promiseAll(states) ==
    IF \E i \in DOMAIN states : states[i] = "failed" THEN "rejected"
    ELSE IF \A i \in DOMAIN states : states[i] = "done" THEN "fulfilled"
    ELSE "pending"


(* the fulfilled values taken in the order the fetches settled *)
promiseAllValuesByArrival(results, arrived) ==
    [k \in DOMAIN results |-> results[arrived[k]]]

(* the array Promise.all fulfils with: the values in the order of its inputs *)
promiseAllValues(results, arrived) == results

(* the ids to seek for without the synthetic ids ALL, BRIDGES, LAYER2S *)
allProjectIdsWithoutSynthetic == projectIds

(* const allProjectIdsToSeekFor = [...projects.map(x => x.projectId), ALL, ...] *)
allProjectIdsToSeekFor == projectIds \o <<"ALL", "BRIDGES", "LAYER2S">>

(* the reports object with the hourly and six-hourly lists exchanged *)
reportsByResolutionSwapped(hourlyReports, sixHourlyReports, dailyReports) ==
    [hourly |-> sixHourlyReports, sixHourly |-> hourlyReports,
     daily |-> dailyReports]

(* the reports handed to fillAllMissingAggregatedReports / ...AssetReports *)
reportsByResolution(hourlyReports, sixHourlyReports, dailyReports) ==
    [hourly |-> hourlyReports, sixHourly |-> sixHourlyReports,
     daily |-> dailyReports]

(* the response generator handed the ids that gap filling is run for *)
tvlChartsForAllIdsSought(hourlyReports, sixHourlyReports, dailyReports, latestReports, latestTimestamp) ==
    LET filled == fillAllMissingAggregatedReports(
                      allProjectIdsToSeekFor,
                      reportsByResolution(hourlyReports, sixHourlyReports,
                                          dailyReports),
                      latestTimestamp)
        groupedHourlyReports ==
            groupByProjectIdAndTimestamp(filled.filledHourlyReports)
        groupedSixHourlyReportsTree ==
            groupByProjectIdAndTimestamp(filled.filledSixHourlyReports)
        groupedDailyReports ==
            groupByProjectIdAndTimestamp(filled.filledDailyReports)
        groupedLatestReports == groupByProjectIdAndAssetType(latestReports)
    IN  generateDetailedTvlApiResponse(groupedHourlyReports,
                                       groupedSixHourlyReportsTree,
                                       groupedDailyReports,
                                       groupedLatestReports,
                                       allProjectIdsToSeekFor)

(* the response generator handed the daily tree for the hourly one *)
tvlChartsDailyForHourly(hourlyReports, sixHourlyReports, dailyReports, latestReports, latestTimestamp) ==
    LET filled == fillAllMissingAggregatedReports(
                      allProjectIdsToSeekFor,
                      reportsByResolution(hourlyReports, sixHourlyReports,
                                          dailyReports),
                      latestTimestamp)
        groupedHourlyReports ==
            groupByProjectIdAndTimestamp(filled.filledHourlyReports)
        groupedSixHourlyReportsTree ==
            groupByProjectIdAndTimestamp(filled.filledSixHourlyReports)
        groupedDailyReports ==
            groupByProjectIdAndTimestamp(filled.filledDailyReports)
        groupedLatestReports == groupByProjectIdAndAssetType(latestReports)
    IN  generateDetailedTvlApiResponse(groupedDailyReports,
                                       groupedSixHourlyReportsTree,
                                       groupedHourlyReports,
                                       groupedLatestReports,
                                       projectIds)

(* getDetailedTvlApiResponse after its Promise.all *)
tvlCharts(hourlyReports, sixHourlyReports, dailyReports, latestReports, latestTimestamp) ==
    LET filled == fillAllMissingAggregatedReports(
                      allProjectIdsToSeekFor,
                      reportsByResolution(hourlyReports, sixHourlyReports,
                                          dailyReports),
                      latestTimestamp)
        groupedHourlyReports ==
            groupByProjectIdAndTimestamp(filled.filledHourlyReports)
        groupedSixHourlyReportsTree ==
            groupByProjectIdAndTimestamp(filled.filledSixHourlyReports)
        groupedDailyReports ==
            groupByProjectIdAndTimestamp(filled.filledDailyReports)
        groupedLatestReports == groupByProjectIdAndAssetType(latestReports)
    IN  generateDetailedTvlApiResponse(groupedHourlyReports,
                                       groupedSixHourlyReportsTree,
                                       groupedDailyReports,
                                       groupedLatestReports,
                                       projectIds)

tvlSuccess(values, latestTimestamp) ==
    [result |-> "success",
     data |-> tvlCharts(values[1], values[2], values[3], values[4],
                        latestTimestamp)]

(* asset.symbol.toLowerCase() *)
toLowerCase(symbol) ==
    CASE symbol = "ETH" -> "eth"
      [] OTHER -> symbol

(* getDetailedAssetTvlApiResponse after its Promise.all *)
assetCharts(hourlyReports, sixHourlyReports, dailyReports, assetId, projectId, latestTimestamp) ==
    LET asset == tokens[CHOOSE i \in findAsset(assetId) :
                            \A j \in findAsset(assetId) : i <= j]
        project == projects[CHOOSE i \in findProject(projectId) :
                                \A j \in findProject(projectId) : i <= j]
        types == <<"timestamp", toLowerCase(asset.symbol), "usd">>
        filled == fillAllMissingAssetReports(
                      asset, project,
                      reportsByResolution(hourlyReports, sixHourlyReports,
                                          dailyReports),
                      latestTimestamp)
    IN  [hourly |->
            [types |-> types,
             data |-> getProjectAssetChartData(filled.filledHourlyReports,
                                               asset.decimals)],
         sixHourly |->
            [types |-> types,
             data |-> getProjectAssetChartData(filled.filledSixHourlyReports,
                                               asset.decimals)],
         daily |->
            [types |-> types,
             data |-> getProjectAssetChartData(filled.filledDailyReports,
                                               asset.decimals)]]

assetSuccess(values, a, latestTimestamp) ==
    [result |-> "success",
     data |-> assetCharts(values[1], values[2], values[3], a.assetId,
                          a.projectId, latestTimestamp)]

(* the merge run only for the projects that have an entry in a source *)
breakdownSuccessProjectsOfSources(values, latestTimestamp) ==
    LET latestReports == values[1]
        balances == values[2]
        prices == values[3]
        externalAssetsBreakdown ==
            getNonCanonicalAssetsBreakdown(latestReports, tokens, "EBV")
        nativeAssetsBreakdown ==
            getNonCanonicalAssetsBreakdown(latestReports, tokens, "NMV")
        canonicalAssetsBreakdown ==
            getCanonicalAssetsBreakdown(balances, prices, projectIds)
        all == Concat(<<externalAssetsBreakdown, nativeAssetsBreakdown,
                        canonicalAssetsBreakdown>>)
        present == SelectSeq(projectIds,
                             LAMBDA p : \E i \in DOMAIN all :
                                            all[i].projectId = p)
        breakdowns ==
            groupAndMergeBreakdowns(present,
                [external  |-> externalAssetsBreakdown,
                 native    |-> nativeAssetsBreakdown,
                 canonical |-> canonicalAssetsBreakdown])
    IN  [result |-> "success",
         data |-> [dataTimestamp |-> latestTimestamp,
                   breakdowns |-> breakdowns]]

(* the external and the native breakdown handed to the merger crosswise *)
breakdownSuccessCategoriesSwapped(values, latestTimestamp) ==
    LET latestReports == values[1]
        balances == values[2]
        prices == values[3]
        externalAssetsBreakdown ==
            getNonCanonicalAssetsBreakdown(latestReports, tokens, "EBV")
        nativeAssetsBreakdown ==
            getNonCanonicalAssetsBreakdown(latestReports, tokens, "NMV")
        canonicalAssetsBreakdown ==
            getCanonicalAssetsBreakdown(balances, prices, projectIds)
        breakdowns ==
            groupAndMergeBreakdowns(projectIds,
                [external  |-> nativeAssetsBreakdown,
                 native    |-> externalAssetsBreakdown,
                 canonical |-> canonicalAssetsBreakdown])
    IN  [result |-> "success",
         data |-> [dataTimestamp |-> latestTimestamp,
                   breakdowns |-> breakdowns]]

(* getProjectTokenBreakdownApiResponse after its Promise.all *)
breakdownSuccess(values, latestTimestamp) ==
    LET latestReports == values[1]
        balances == values[2]
        prices == values[3]
        externalAssetsBreakdown ==
            getNonCanonicalAssetsBreakdown(latestReports, tokens, "EBV")
        nativeAssetsBreakdown ==
            getNonCanonicalAssetsBreakdown(latestReports, tokens, "NMV")
        canonicalAssetsBreakdown ==
            getCanonicalAssetsBreakdown(balances, prices, projectIds)
        breakdowns ==
            groupAndMergeBreakdowns(projectIds,
                [external  |-> externalAssetsBreakdown,
                 native    |-> nativeAssetsBreakdown,
                 canonical |-> canonicalAssetsBreakdown])
    IN  [result |-> "success",
         data |-> [dataTimestamp |-> latestTimestamp,
                   breakdowns |-> breakdowns]]

successOf(o, a, values, latestTimestamp) ==
    CASE o = "tvl" -> tvlSuccess(values, latestTimestamp)
      [] o = "asset" -> assetSuccess(values, a, latestTimestamp)
      [] o = "breakdown" -> breakdownSuccess(values, latestTimestamp)

----------------------------------------------------------------------------
(* CachedDataRepository: the cached_data table behind its three methods *)

(* const id = 0 // only one row should exist *)
id == 0

Undefined == "undefined"
CachedData == {"d1", "d2"}
NothingReturned == [method |-> "none", value |-> Undefined]
NothingPending == [method |-> "none"]

(* no row; no method called yet *)
EmptyCache ==
    [table |-> {}, now |-> 0, lastSaved |-> Undefined,
     pending |-> NothingPending, returned |-> NothingReturned]

(* insert(row).onConflict(['id']).merge(): the row replaces a row of its id *)
insertOnConflictMerge(table, row) ==
    {r \in table : r.id # row.id} \cup {row}

(* where({ id }).first(): a row of that id, if there is one *)
whereIdFirst(table) == {r \in table : r.id = id}

----------------------------------------------------------------------------
(* Kroma proposer script: the chain it reads and the position of the script *)

VALIDATOR_PUBLIC_ROUND_ADDRESS == "0xFFfFfFffFFfffFFfFFfFFFFFffFFFffffFfFFFfF"
myAddr == "MY_ADDRESS"
OtherProposer == "0xOther"
NoProposer == "none"
Proposers == {myAddr, VALIDATOR_PUBLIC_ROUND_ADDRESS, OtherProposer}

(* the script has not been started; the chain has no event of its address *)
KromaNotRun ==
    [bonded |-> 0, isValidator |-> FALSE, nextValidator |-> OtherProposer,
     due |-> FALSE,
     pc |-> "notRun", nextStep |-> "continue", error |-> "none",
     events |-> -1, sawValidator |-> FALSE, proposer |-> NoProposer,
     submittedNow |-> FALSE, submits |-> 0, handledChallenges |-> FALSE]

(* getProposedOutputIndex accepting two Bonded events *)
getProposedOutputIndexAcceptingTwo(myBondedEvents) ==
    IF myBondedEvents > 2 THEN "throw"
    ELSE IF myBondedEvents = 0 THEN "undefined"
    ELSE "outputIndex"

(* what getProposedOutputIndex does with the number of Bonded events found *)
getProposedOutputIndex(myBondedEvents) ==
    IF myBondedEvents > 1 THEN "throw"
    ELSE IF myBondedEvents = 0 THEN "undefined"
    ELSE "outputIndex"

(* while (proposer !== myAddr && proposer !== VALIDATOR_PUBLIC_ROUND_ADDRESS) *)
keepsWaiting(proposer) ==
    proposer # myAddr /\ proposer # VALIDATOR_PUBLIC_ROUND_ADDRESS

(* what one iteration of the loop of run has seen, before it has seen it *)
newIteration(k) ==
    [k EXCEPT !.pc = "getLogsInBatches", !.events = -1,
              !.sawValidator = FALSE, !.proposer = NoProposer,
              !.submittedNow = FALSE]

(* the script at the call of l2OutputOracle.submitL2Output *)
callsSubmitL2Output(k) ==
    [k EXCEPT !.pc = "submitL2Output", !.submittedNow = TRUE,
              !.submits = @ + 1]

----------------------------------------------------------------------------
(* Contents of the storage a behaviour starts from *)

StatusPresets ==
    { EmptyStatus,
      [matching |-> 5, different |-> 0, latest |-> 1000],
      [matching |-> 5, different |-> 2, latest |-> 1000] }

BalanceRow(p, a, ts, balance) ==
    [projectId |-> p, assetId |-> a, timestamp |-> ts, balance |-> balance]

PriceRow(a, ts, priceUsd) ==
    [assetId |-> a, timestamp |-> ts, priceUsd |-> priceUsd]

EmptyDb ==
    [aggregated |-> [hourly |-> <<>>, sixHourly |-> <<>>, daily |-> <<>>],
     reports    |-> [hourly |-> <<>>, sixHourly |-> <<>>, daily |-> <<>>],
     balances   |-> <<>>,
     prices     |-> <<>>]

SampleDb ==
    [aggregated |->
        [hourly |-> << AggRow("p1", "CBV", 999, 3, 30),
                       AggRow("p1", "EBV", 999, 2, 20),
                       AggRow("ALL", "TVL", 1000, 7, 70),
                       AggRow("p2", "CBV", 1001, 1, 10),
                       AggRow("p2", "CBV", 990, 4, 40),
                       AggRow(UnknownProject, "CBV", 1000, 9, 90) >>,
         sixHourly |-> << AggRow("p1", "CBV", 994, 6, 60),
                          AggRow("p2", "NMV", 1000, 1, 10),
                          AggRow("p2", "CBV", 989, 8, 80) >>,
         daily |-> << AggRow("p1", "CBV", 976, 5, 50),
                      AggRow("p2", "EBV", 1000, 2, 20) >>],
     reports |->
        [hourly |-> << ReportRow("p1", "a1", "CBV", 1000, 3, 30),
                       ReportRow("p1", "a1", "EBV", 1000, 2, 20),
                       ReportRow("p2", "a1", "NMV", 1000, 1, 10),
                       ReportRow("p1", "a1", "CBV", 999, 4, 40),
                       ReportRow("p1", "a1", "CBV", 1001, 6, 60),
                       ReportRow("p1", "a1", "NMV", 1001, 1, 10) >>,
         sixHourly |-> << ReportRow("p1", "a1", "CBV", 994, 5, 50),
                          ReportRow("p1", "a1", "CBV", 995, 7, 70) >>,
         daily |-> << ReportRow("p1", "a1", "CBV", 976, 8, 80) >>],
     balances |-> << BalanceRow("p1", "a1", 1000, 3),
                     BalanceRow("p2", "a1", 1001, 4),
                     BalanceRow(UnknownProject, "a1", 1000, 5) >>,
     prices |-> << PriceRow("a1", 1000, 10), PriceRow("a1", 1001, 20) >>]

DataSets == {EmptyDb, SampleDb}

AssetTypes == {"CBV", "NMV"}

----------------------------------------------------------------------------
(* No rows have been handed to the reconciliation pipeline *)

NoFill == [kind |-> "none"]

RequestIdle ==
    /\ op = "none"
    /\ args = NoArgs
    /\ pc = "idle"
    /\ counts = NoCounts
    /\ timings = NoTimings
    /\ fetchState = <<>>
    /\ fetchResult = <<>>
    /\ arrival = <<>>
    /\ calls = <<>>
    /\ result = NoResult

Init ==
    /\ statusRepo \in StatusPresets
    /\ db \in DataSets
    /\ options \in [errorOnUnsyncedDetailedTvl : BOOLEAN]
    /\ RequestIdle
    /\ fin = NoFill
    /\ fout = NoFill
    /\ cache = EmptyCache
    /\ kroma = KromaNotRun

----------------------------------------------------------------------------
(* Writers of the aggregated report status table (other processes) *)

statusAdded(kind, ts) ==
    /\ statusRepo.matching + statusRepo.different < MaxStatusRows
    /\ statusRepo' = addStatus(statusRepo, kind, ts)
    /\ UNCHANGED <<db, options, op, args, pc, counts, timings, fetchState,
                   fetchResult, arrival, calls, result, fin, fout, cache, kroma>>

statusDeleted ==
    /\ statusRepo # EmptyStatus
    /\ statusRepo' = EmptyStatus
    /\ UNCHANGED <<db, options, op, args, pc, counts, timings, fetchState,
                   fetchResult, arrival, calls, result, fin, fout, cache, kroma>>

----------------------------------------------------------------------------
(* The three public operations, up to their first await *)

(* the request enters getDataTimings and issues findCountsForHash *)
enterGetDataTimings(o, a) ==
    /\ op' = o
    /\ args' = a
    /\ calls' = <<[name |-> "findCountsForHash"]>>
    /\ pc' = "counts"
    /\ UNCHANGED <<statusRepo, db, options, counts, timings, fetchState,
                   fetchResult, arrival, result, fin, fout, cache, kroma>>

getDetailedTvlApiResponse ==
    /\ pc = "idle"
    /\ enterGetDataTimings("tvl", NoArgs)

getDetailedAssetTvlApiResponse(projectId, chainId, assetId, assetType) ==
    /\ pc = "idle"
    /\ LET a == [projectId |-> projectId, chainId |-> chainId,
                 assetId |-> assetId, assetType |-> assetType]
       IN  IF ~isValidProjectAndAsset(projectId, assetId)
           THEN /\ op' = "asset"
                /\ args' = a
                /\ result' = ErrorResult("INVALID_PROJECT_OR_ASSET")
                /\ pc' = "done"
                /\ UNCHANGED <<statusRepo, db, options, counts, timings,
                               fetchState, fetchResult, arrival, calls,
                               fin, fout, cache, kroma>>
           ELSE enterGetDataTimings("asset", a)

getProjectTokenBreakdownApiResponse ==
    /\ pc = "idle"
    /\ enterGetDataTimings("breakdown", NoArgs)

----------------------------------------------------------------------------
(* getDataTimings: two sequential reads *)

(* the two counts of the first read bound to each other's name *)
findCountsForHashResolvesCountsCrossed ==
    /\ pc = "counts"
    /\ counts' = [matching  |-> findCountsForHash(statusRepo).different,
                  different |-> findCountsForHash(statusRepo).matching]
    /\ calls' = Append(calls, [name |-> "findLatestTimestamp"])
    /\ pc' = "latest"
    /\ UNCHANGED <<statusRepo, db, options, op, args, timings, fetchState,
                   fetchResult, arrival, result, fin, fout, cache, kroma>>

(* findCountsForHash resolves; getDataTimings issues findLatestTimestamp *)
findCountsForHashResolves ==
    /\ pc = "counts"
    /\ counts' = findCountsForHash(statusRepo)
    /\ calls' = Append(calls, [name |-> "findLatestTimestamp"])
    /\ pc' = "latest"
    /\ UNCHANGED <<statusRepo, db, options, op, args, timings, fetchState,
                   fetchResult, arrival, result, fin, fout, cache, kroma>>


(* the handler issuing its fetches ahead of the two early returns *)
findLatestTimestampResolvesFetchFirst ==
    /\ pc = "latest"
    /\ LET t == getDataTimings(counts, findLatestTimestamp(statusRepo))
           gate == syncGate(t, options)
           fetches == fetchesOf(op, args, t.latestTimestamp)
       IN  /\ timings' = t
           /\ calls' = calls \o fetches
           /\ fetchState' = [i \in DOMAIN fetches |-> "pending"]
           /\ fetchResult' = [i \in DOMAIN fetches |-> <<>>]
           /\ IF gate # "pass"
              THEN /\ result' = ErrorResult(gate)
                   /\ pc' = "done"
              ELSE /\ pc' = "fetch"
                   /\ UNCHANGED result
    /\ UNCHANGED <<statusRepo, db, options, op, args, counts, arrival,
                   fin, fout, cache, kroma>>

(* findLatestTimestamp resolves; getDataTimings returns; the caller runs up *)
(* to its next await (the Promise.all) or returns an error result           *)
findLatestTimestampResolves ==
    /\ pc = "latest"
    /\ LET t == getDataTimings(counts, findLatestTimestamp(statusRepo))
           gate == syncGate(t, options)
       IN  /\ timings' = t
           /\ IF gate # "pass"
              THEN /\ result' = ErrorResult(gate)
                   /\ pc' = "done"
                   /\ UNCHANGED <<fetchState, fetchResult, calls>>
              ELSE LET fetches == fetchesOf(op, args, t.latestTimestamp)
                   IN  /\ calls' = calls \o fetches
                       /\ fetchState' = [i \in DOMAIN fetches |-> "pending"]
                       /\ fetchResult' = [i \in DOMAIN fetches |-> <<>>]
                       /\ pc' = "fetch"
                       /\ UNCHANGED result
    /\ UNCHANGED <<statusRepo, db, options, op, args, counts, arrival,
                   fin, fout, cache, kroma>>

(* a read of getDataTimings rejects: nothing catches it *)
statusReadRejects ==
    /\ pc \in {"counts", "latest"}
    /\ result' = Thrown
    /\ pc' = "done"
    /\ UNCHANGED <<statusRepo, db, options, op, args, counts, timings,
                   fetchState, fetchResult, arrival, calls, fin, fout, cache, kroma>>

----------------------------------------------------------------------------
(* The concurrent fetches joined by Promise.all *)

(* the i-th fetch settles with the given state; the await of Promise.all *)
(* resumes the handler once the join is settled                          *)
(* the response built with a latest timestamp read again from storage *)
fetchSettlesReadingLatestAgain(i, state, rows) ==
    /\ pc = "fetch"
    /\ i \in DOMAIN fetchState
    /\ fetchState[i] = "pending"
    /\ fetchState' = [fetchState EXCEPT ![i] = state]
    /\ fetchResult' = [fetchResult EXCEPT ![i] = rows]
    /\ arrival' = Append(arrival, i)
    /\ LET joined == promiseAll(fetchState')
       IN  CASE joined = "rejected" ->
                    /\ result' = Thrown
                    /\ pc' = "done"
             [] joined = "fulfilled" ->
                    /\ result' = successOf(op, args,
                                     promiseAllValues(fetchResult', arrival'),
                                     findLatestTimestamp(statusRepo))
                    /\ pc' = "done"
             [] joined = "pending" ->
                    UNCHANGED <<result, pc>>
    /\ UNCHANGED <<statusRepo, db, options, op, args, counts, timings, calls,
                   fin, fout, cache, kroma>>

fetchSettles(i, state, rows) ==
    /\ pc = "fetch"
    /\ i \in DOMAIN fetchState
    /\ fetchState[i] = "pending"
    /\ fetchState' = [fetchState EXCEPT ![i] = state]
    /\ fetchResult' = [fetchResult EXCEPT ![i] = rows]
    /\ arrival' = Append(arrival, i)
    /\ LET joined == promiseAll(fetchState')
       IN  CASE joined = "rejected" ->
                    /\ result' = Thrown
                    /\ pc' = "done"
             [] joined = "fulfilled" ->
                    /\ result' = successOf(op, args,
                                     promiseAllValues(fetchResult', arrival'),
                                     timings.latestTimestamp)
                    /\ pc' = "done"
             [] joined = "pending" ->
                    UNCHANGED <<result, pc>>
    /\ UNCHANGED <<statusRepo, db, options, op, args, counts, timings, calls,
                   fin, fout, cache, kroma>>

fetchResolves(i) ==
    /\ i \in DOMAIN fetchState
    /\ fetchSettles(i, "done", StorageRead(db, calls[2 + i]))

fetchRejects(i) ==
    fetchSettles(i, "failed", <<>>)

(* the caller has the outcome; the controller keeps nothing of the request *)
respond ==
    /\ pc = "done"
    /\ op' = "none"
    /\ args' = NoArgs
    /\ pc' = "idle"
    /\ counts' = NoCounts
    /\ timings' = NoTimings
    /\ fetchState' = <<>>
    /\ fetchResult' = <<>>
    /\ arrival' = <<>>
    /\ calls' = <<>>
    /\ result' = NoResult
    /\ UNCHANGED <<statusRepo, db, options, fin, fout, cache, kroma>>

MaxFetches == 4

Next ==
    \/ \E kind \in {"matching", "different"}, ts \in StatusTimestamps :
           statusAdded(kind, ts)
    \/ statusDeleted
    \/ getDetailedTvlApiResponse
    \/ \E p \in ProjectArgs, a \in AssetArgs, t \in AssetTypes :
           getDetailedAssetTvlApiResponse(p, 1, a, t)
    \/ getProjectTokenBreakdownApiResponse
    \/ findCountsForHashResolves
    \/ findLatestTimestampResolves
    \/ statusReadRejects
    \/ \E i \in 1..MaxFetches : fetchResolves(i)
    \/ \E i \in 1..MaxFetches : fetchRejects(i)
    \/ respond

Spec == Init /\ [][Next]_vars

----------------------------------------------------------------------------
(* The reconciliation pipeline on its own: the state of a handler right    *)
(* after its Promise.all, for every list of rows the storage may have      *)
(* resolved with, and the synchronous rest of the handler                  *)

AggregatedRowChoices(R) ==
    CASE R = "hourly" ->
            { AggRow("p1", "CBV", 999, 5, 50),
              AggRow("p1", "CBV", 1000, 3, 30),
              AggRow("p1", "EBV", 1000, 2, 20),
              AggRow("ALL", "TVL", 1001, 7, 70),
              AggRow("p2", "NMV", 997, 4, 40),
              AggRow("p2", "CBV", 1002, 6, 60),
              AggRow(UnknownProject, "CBV", 1000, 9, 90) }
      [] R = "sixHourly" ->
            { AggRow("p1", "CBV", 994, 5, 50),
              AggRow("p1", "CBV", 1000, 3, 30),
              AggRow("p1", "EBV", 1000, 2, 20),
              AggRow("ALL", "TVL", 995, 7, 70),
              AggRow("p2", "NMV", 982, 4, 40),
              AggRow("p2", "CBV", 1007, 6, 60),
              AggRow("p2", "CBV", 996, 1, 10) }
      [] R = "daily" ->
            { AggRow("p1", "CBV", 976, 5, 50),
              AggRow("p1", "CBV", 1000, 3, 30),
              AggRow("p1", "EBV", 1000, 2, 20),
              AggRow("ALL", "TVL", 952, 7, 70),
              AggRow("p2", "NMV", 928, 4, 40),
              AggRow("p2", "CBV", 1024, 6, 60),
              AggRow("p2", "CBV", 1001, 1, 10) }

AssetRowChoices(R) ==
    CASE R = "hourly" ->
            { ReportRow("p1", "a1", "CBV", 999, 5, 50),
              ReportRow("p1", "a1", "CBV", 1000, 3, 30),
              ReportRow("p1", "a1", "CBV", 1000, 2, 20),
              ReportRow("p1", "a1", "CBV", 997, 4, 40),
              ReportRow("p1", "a1", "CBV", 1002, 6, 60) }
      [] R = "sixHourly" ->
            { ReportRow("p1", "a1", "CBV", 994, 5, 50),
              ReportRow("p1", "a1", "CBV", 1000, 3, 30),
              ReportRow("p1", "a1", "CBV", 1000, 2, 20),
              ReportRow("p1", "a1", "CBV", 982, 4, 40),
              ReportRow("p1", "a1", "CBV", 1007, 6, 60) }
      [] R = "daily" ->
            { ReportRow("p1", "a1", "CBV", 976, 5, 50),
              ReportRow("p1", "a1", "CBV", 1000, 3, 30),
              ReportRow("p1", "a1", "CBV", 1000, 2, 20),
              ReportRow("p1", "a1", "CBV", 928, 4, 40),
              ReportRow("p1", "a1", "CBV", 1024, 6, 60) }

(* reports of the latest timestamp, as reportRepository.getByTimestamp gives them *)
LatestRowChoices ==
    { ReportRow("p1", "a1", "CBV", 1000, 3, 30),
      ReportRow("p1", "a1", "EBV", 1000, 2, 20),
      ReportRow("p1", "a2", "CBV", 1000, 4, 40),
      ReportRow("p2", "a1", "NMV", 1000, 1, 10),
      ReportRow(UnknownProject, "a1", "CBV", 1000, 9, 90) }

(* the sequences of at most n members of S *)
SeqsUpTo(S, n) == UNION {[1..k -> S] : k \in 0..n}

FillInput(kind, R, rows, latestTimestamp) ==
    [kind |-> kind,
     hourly |-> IF R = "hourly" THEN rows ELSE <<>>,
     sixHourly |-> IF R = "sixHourly" THEN rows ELSE <<>>,
     daily |-> IF R = "daily" THEN rows ELSE <<>>,
     latest |-> IF R = "latest" THEN rows ELSE <<>>,
     latestTimestamp |-> latestTimestamp]

FillInputs ==
    UNION { { FillInput("aggregated", R, rows, latest) :
                  rows \in SeqsUpTo(AggregatedRowChoices(R), MaxFillRows) }
            \cup
            { FillInput("asset", R, rows, latest) :
                  rows \in SeqsUpTo(AssetRowChoices(R), MaxFillRows) }
            : R \in Resolutions, latest \in StatusTimestamps }
    \cup
    { FillInput("aggregated", "latest", rows, 1000) :
          rows \in SeqsUpTo(LatestRowChoices, MaxFillRows) }

FillInit ==
    /\ statusRepo = EmptyStatus
    /\ db = EmptyDb
    /\ options = [errorOnUnsyncedDetailedTvl |-> FALSE]
    /\ RequestIdle
    /\ fin \in FillInputs
    /\ fout = NoFill
    /\ cache = EmptyCache
    /\ kroma = KromaNotRun

(* getDetailedTvlApiResponse from allProjectIdsToSeekFor to the response *)
reconcileAggregated ==
    /\ fin.kind = "aggregated"
    /\ fout = NoFill
    /\ LET filled == fillAllMissingAggregatedReports(
                         allProjectIdsToSeekFor,
                         reportsByResolution(fin.hourly, fin.sixHourly,
                                             fin.daily),
                         fin.latestTimestamp)
       IN  fout' =
             [kind |-> "aggregated",
              grouped |->
                [hourly |->
                    groupByProjectIdAndTimestamp(filled.filledHourlyReports),
                 sixHourly |->
                    groupByProjectIdAndTimestamp(filled.filledSixHourlyReports),
                 daily |->
                    groupByProjectIdAndTimestamp(filled.filledDailyReports)],
              data |-> tvlCharts(fin.hourly, fin.sixHourly, fin.daily,
                                 fin.latest, fin.latestTimestamp)]
    /\ UNCHANGED <<statusRepo, db, options, op, args, pc, counts, timings,
                   fetchState, fetchResult, arrival, calls, result, fin, cache, kroma>>

(* getDetailedAssetTvlApiResponse from assetSymbol to the response *)
reconcileAsset ==
    /\ fin.kind = "asset"
    /\ fout = NoFill
    /\ fout' = [kind |-> "asset",
                data |-> assetCharts(fin.hourly, fin.sixHourly, fin.daily,
                                     "a1", "p1", fin.latestTimestamp)]
    /\ UNCHANGED <<statusRepo, db, options, op, args, pc, counts, timings,
                   fetchState, fetchResult, arrival, calls, result, fin, cache, kroma>>

FillNext ==
    \/ reconcileAggregated
    \/ reconcileAsset

SpecFill == FillInit /\ [][FillNext]_vars

----------------------------------------------------------------------------
(* The breakdown merge on its own: getProjectTokenBreakdownApiResponse     *)
(* from the results of its Promise.all to the response, for every small    *)
(* set of latest reports, balances and prices                              *)

MergeReportChoices ==
    { ReportRow("p1", "a1", "EBV", 1000, 2, 20),
      ReportRow("p1", "a1", "NMV", 1000, 1, 10),
      ReportRow("p1", "a1", "CBV", 1000, 3, 30),
      ReportRow("p2", "a1", "NMV", 1000, 4, 40),
      ReportRow(UnknownProject, "a1", "EBV", 1000, 9, 90),
      ReportRow(UnknownProject, "a1", "NMV", 1000, 8, 80) }

MergeBalanceChoices ==
    { BalanceRow("p1", "a1", 1000, 3),
      BalanceRow(UnknownProject, "a1", 1000, 5) }

MergePriceChoices == { <<>>, << PriceRow("a1", 1000, 10) >> }

MergeInputs ==
    { [kind |-> "breakdown", latest |-> reports, balances |-> balances,
       prices |-> prices, latestTimestamp |-> 1000] :
          reports \in SeqsUpTo(MergeReportChoices, MaxFillRows),
          balances \in SeqsUpTo(MergeBalanceChoices, 1),
          prices \in MergePriceChoices }

MergeInit ==
    /\ statusRepo = EmptyStatus
    /\ db = EmptyDb
    /\ options = [errorOnUnsyncedDetailedTvl |-> FALSE]
    /\ RequestIdle
    /\ fin \in MergeInputs
    /\ fout = NoFill
    /\ cache = EmptyCache
    /\ kroma = KromaNotRun

(* getProjectTokenBreakdownApiResponse from the three breakdowns to the response *)
reconcileBreakdown ==
    /\ fin.kind = "breakdown"
    /\ fout = NoFill
    /\ fout' =
          [kind |-> "breakdown",
           sources |->
             [external |->
                 getNonCanonicalAssetsBreakdown(fin.latest, tokens, "EBV"),
              native |->
                 getNonCanonicalAssetsBreakdown(fin.latest, tokens, "NMV"),
              canonical |->
                 getCanonicalAssetsBreakdown(fin.balances, fin.prices,
                                             projectIds)],
           data |-> breakdownSuccess(<<fin.latest, fin.balances, fin.prices>>,
                                     fin.latestTimestamp).data]
    /\ UNCHANGED <<statusRepo, db, options, op, args, pc, counts, timings,
                   fetchState, fetchResult, arrival, calls, result, fin, cache, kroma>>

MergeNext == reconcileBreakdown

SpecMerge == MergeInit /\ [][MergeNext]_vars

----------------------------------------------------------------------------
(* CachedDataRepository on its own: callers of its three methods; each    *)
(* method is one statement against the table                              *)

ControllerIdle ==
    /\ statusRepo = EmptyStatus
    /\ db = EmptyDb
    /\ options = [errorOnUnsyncedDetailedTvl |-> FALSE]
    /\ RequestIdle
    /\ fin = NoFill
    /\ fout = NoFill

CacheInit ==
    /\ ControllerIdle
    /\ cache = EmptyCache
    /\ kroma = KromaNotRun

(* a caller enters a method: `await this.knex()`; saveData builds its row *)
(* with UnixTime.now().toString() before the statement is sent           *)
methodCalled(method, data) ==
    /\ cache.pending = NothingPending
    /\ cache' = [cache EXCEPT
                    !.pending = [method |-> method,
                                 row |-> [id |-> id,
                                          unix_timestamp |-> ToString(cache.now),
                                          data |-> data]]]
    /\ UNCHANGED <<statusRepo, db, options, op, args, pc, counts, timings,
                   fetchState, fetchResult, arrival, calls, result, fin, fout,
                   kroma>>

(* a plain insert, with no onConflict(['id']).merge() *)
saveDataInsertOnly ==
    /\ cache.pending.method = "saveData"
    /\ cache' = [cache EXCEPT
                    !.table = @ \cup {cache.pending.row},
                    !.lastSaved = cache.pending.row.data,
                    !.returned = [method |-> "saveData", value |-> id],
                    !.pending = NothingPending]
    /\ UNCHANGED <<statusRepo, db, options, op, args, pc, counts, timings,
                   fetchState, fetchResult, arrival, calls, result, fin, fout,
                   kroma>>

(* async saveData(data): insert or merge the row of id 0, return id *)
saveData ==
    /\ cache.pending.method = "saveData"
    /\ cache' = [cache EXCEPT
                    !.table = insertOnConflictMerge(@, cache.pending.row),
                    !.lastSaved = cache.pending.row.data,
                    !.returned = [method |-> "saveData", value |-> id],
                    !.pending = NothingPending]
    /\ UNCHANGED <<statusRepo, db, options, op, args, pc, counts, timings,
                   fetchState, fetchResult, arrival, calls, result, fin, fout,
                   kroma>>

(* async getData(): row?.data of the first row of id 0 *)
getData ==
    /\ cache.pending.method = "getData"
    /\ \E value \in IF whereIdFirst(cache.table) = {} THEN {Undefined}
                     ELSE {row.data : row \in whereIdFirst(cache.table)} :
           cache' = [cache EXCEPT
                        !.returned = [method |-> "getData", value |-> value],
                        !.pending = NothingPending]
    /\ UNCHANGED <<statusRepo, db, options, op, args, pc, counts, timings,
                   fetchState, fetchResult, arrival, calls, result, fin, fout,
                   kroma>>

(* async deleteAll(): every row goes; returns how many there were *)
deleteAll ==
    /\ cache.pending.method = "deleteAll"
    /\ cache' = [cache EXCEPT
                    !.table = {},
                    !.lastSaved = Undefined,
                    !.returned = [method |-> "deleteAll",
                                  value |-> Cardinality(cache.table)],
                    !.pending = NothingPending]
    /\ UNCHANGED <<statusRepo, db, options, op, args, pc, counts, timings,
                   fetchState, fetchResult, arrival, calls, result, fin, fout,
                   kroma>>

(* UnixTime.now() moves on *)
clockTicks ==
    /\ cache.now < MaxClock
    /\ cache' = [cache EXCEPT !.now = @ + 1]
    /\ UNCHANGED <<statusRepo, db, options, op, args, pc, counts, timings,
                   fetchState, fetchResult, arrival, calls, result, fin, fout,
                   kroma>>

CacheNext ==
    \/ \E data \in CachedData : methodCalled("saveData", data)
    \/ methodCalled("getData", Undefined)
    \/ methodCalled("deleteAll", Undefined)
    \/ saveData
    \/ getData
    \/ deleteAll
    \/ clockTicks

SpecCache == CacheInit /\ [][CacheNext]_vars

----------------------------------------------------------------------------
(* The Kroma proposer script: one action per await of the script, and the *)
(* changes of the chain by others                                         *)

notTheScript ==
    <<statusRepo, db, options, op, args, pc, counts, timings, fetchState,
      fetchResult, arrival, calls, result, fin, fout, cache>>

ProposerInit ==
    /\ ControllerIdle
    /\ cache = EmptyCache
    /\ kroma \in { [KromaNotRun EXCEPT !.bonded = b, !.isValidator = v,
                                       !.nextValidator = p] :
                       b \in 0..MaxBonded, v \in BOOLEAN, p \in Proposers }

(* run() up to `await showBasicKromaInfo(contracts)` *)
run ==
    /\ kroma.pc = "notRun"
    /\ kroma' = [kroma EXCEPT !.pc = "showBasicKromaInfo"]
    /\ UNCHANGED notTheScript

(* the three reads of showBasicKromaInfo are logged; the loop is entered *)
(* and performNextAction awaits getProposedOutputIndex                   *)
showBasicKromaInfo ==
    /\ kroma.pc = "showBasicKromaInfo"
    /\ kroma' = newIteration(kroma)
    /\ UNCHANGED notTheScript

(* getLogsInBatches(Bonded(myAddr)) resolves; performNextAction branches *)
performNextAction ==
    /\ kroma.pc = "getLogsInBatches"
    /\ LET proposedOutputIndex == getProposedOutputIndex(kroma.bonded)
       IN  kroma' =
             [kroma EXCEPT
                !.events = kroma.bonded,
                !.pc = CASE proposedOutputIndex = "throw" -> "failed"
                         [] proposedOutputIndex = "undefined" -> "isValidator"
                         [] proposedOutputIndex = "outputIndex" ->
                                "handleChallenges",
                !.error = IF proposedOutputIndex = "throw"
                          THEN "multiple proposals" ELSE @]
    /\ UNCHANGED notTheScript

(* addMyselfToProposerList: the first isValidator(myAddr) resolves *)
addMyselfToProposerList ==
    /\ kroma.pc = "isValidator"
    /\ kroma' = IF kroma.isValidator
                THEN [kroma EXCEPT !.sawValidator = TRUE,
                                   !.pc = "nextValidator"]
                ELSE [kroma EXCEPT !.pc = "deposit"]
    /\ UNCHANGED notTheScript

(* validatorPool.deposit({ value }) resolves: the transaction is sent, *)
(* mined or not                                                       *)
depositResolves ==
    /\ kroma.pc = "deposit"
    /\ \E mined \in BOOLEAN :
           kroma' = [kroma EXCEPT !.isValidator = @ \/ mined,
                                  !.pc = "isValidatorAgain"]
    /\ UNCHANGED notTheScript

(* the second isValidator(myAddr) resolves: throw unless it is true *)
isValidatorAgainResolves ==
    /\ kroma.pc = "isValidatorAgain"
    /\ kroma' = IF kroma.isValidator
                THEN [kroma EXCEPT !.sawValidator = TRUE,
                                   !.pc = "nextValidator"]
                ELSE [kroma EXCEPT !.pc = "failed",
                                   !.error = "not added"]
    /\ UNCHANGED notTheScript

(* waitToBecomeProposerOrPublicRound: nextValidator() resolves; on leaving *)
(* the loop submitOutputRoot awaits nextBlockNumber()                      *)
waitToBecomeProposerOrPublicRound ==
    /\ kroma.pc = "nextValidator"
    /\ kroma' = [kroma EXCEPT
                    !.proposer = kroma.nextValidator,
                    !.pc = IF keepsWaiting(kroma.nextValidator)
                           THEN "sleep" ELSE "nextBlockNumber"]
    /\ UNCHANGED notTheScript

(* await sleep(10 * 1000) ends; nextValidator() is asked again *)
sleepEnds ==
    /\ kroma.pc = "sleep"
    /\ kroma' = [kroma EXCEPT !.pc = "nextValidator"]
    /\ UNCHANGED notTheScript

(* submitOutputRoot: nextBlockNumber, getBlock and computeL2Timestamp *)
(* resolve in turn; then the script waits for the timestamp or calls   *)
(* submitL2Output                                                      *)
submitOutputRoot ==
    /\ kroma.pc \in {"nextBlockNumber", "getBlock", "computeL2Timestamp"}
    /\ kroma' =
          CASE kroma.pc = "nextBlockNumber" -> [kroma EXCEPT !.pc = "getBlock"]
            [] kroma.pc = "getBlock" ->
                   [kroma EXCEPT !.pc = "computeL2Timestamp"]
            [] kroma.pc = "computeL2Timestamp" ->
                   IF kroma.due THEN callsSubmitL2Output(kroma)
                   ELSE [kroma EXCEPT !.pc = "sleepTimestamp"]
    /\ UNCHANGED notTheScript

(* await sleep(1 * 1000) ends with Date.now() / 1000 >= waitUntil *)
timestampReached ==
    /\ kroma.pc = "sleepTimestamp"
    /\ kroma.due
    /\ kroma' = callsSubmitL2Output(kroma)
    /\ UNCHANGED notTheScript

(* submitL2Output resolves with the transaction; the script awaits tx.wait() *)
submitL2OutputResolves ==
    /\ kroma.pc = "submitL2Output"
    /\ kroma' = [kroma EXCEPT !.pc = "txWait"]
    /\ UNCHANGED notTheScript

(* tx.wait() resolves: the output is on the chain with a bond of the   *)
(* sender; proposeRoot returns, performNextAction returns 'continue'   *)
(* and the loop calls it again                                         *)
transactionMined ==
    /\ kroma.pc = "txWait"
    /\ kroma' = newIteration(
                    [kroma EXCEPT
                        !.bonded = IF @ < MaxBonded THEN @ + 1 ELSE @,
                        !.due = FALSE,
                        !.nextStep = "continue"])
    /\ UNCHANGED notTheScript

(* handleChallenges: getLogsInBatches(ChallengeCreated) resolves, each *)
(* challenge is logged; performNextAction returns 'stop'               *)
handleChallenges ==
    /\ kroma.pc = "handleChallenges"
    /\ kroma' = [kroma EXCEPT !.handledChallenges = TRUE,
                              !.nextStep = "stop", !.pc = "stopped"]
    /\ UNCHANGED notTheScript

Awaiting ==
    {"showBasicKromaInfo", "getLogsInBatches", "isValidator", "deposit",
     "isValidatorAgain", "nextValidator", "nextBlockNumber", "getBlock",
     "computeL2Timestamp", "submitL2Output", "txWait", "handleChallenges"}

(* an awaited call rejects: run().catch logs it and the process exits *)
runCatch ==
    /\ kroma.pc \in Awaiting
    /\ kroma' = [kroma EXCEPT !.pc = "failed", !.error = "rejected"]
    /\ UNCHANGED notTheScript

(* another holder of the key submits an output: one more Bonded event *)
bondedElsewhere ==
    /\ kroma.bonded < MaxBonded
    /\ kroma' = [kroma EXCEPT !.bonded = @ + 1]
    /\ UNCHANGED notTheScript

(* the validator pool adds or drops the address *)
validatorSetChanges ==
    /\ kroma' = [kroma EXCEPT !.isValidator = ~@]
    /\ UNCHANGED notTheScript

(* the pool moves on to another next validator, or to a public round *)
roundChanges(p) ==
    /\ p # kroma.nextValidator
    /\ kroma' = [kroma EXCEPT !.nextValidator = p]
    /\ UNCHANGED notTheScript

(* the clock passes the timestamp of the next L2 block *)
timePasses ==
    /\ ~kroma.due
    /\ kroma' = [kroma EXCEPT !.due = TRUE]
    /\ UNCHANGED notTheScript

ProposerNext ==
    \/ run
    \/ showBasicKromaInfo
    \/ performNextAction
    \/ addMyselfToProposerList
    \/ depositResolves
    \/ isValidatorAgainResolves
    \/ waitToBecomeProposerOrPublicRound
    \/ sleepEnds
    \/ submitOutputRoot
    \/ timestampReached
    \/ submitL2OutputResolves
    \/ transactionMined
    \/ handleChallenges
    \/ runCatch
    \/ bondedElsewhere
    \/ validatorSetChanges
    \/ \E p \in Proposers : roundChanges(p)
    \/ timePasses

SpecProposer == ProposerInit /\ [][ProposerNext]_vars

----------------------------------------------------------------------------
(* Properties of the controller, checked under Spec *)

StatusReads == {"findCountsForHash", "findLatestTimestamp"}

(* positions in the call log of the data fetches of the request *)
DataCalls == {k \in DOMAIN calls : calls[k].name \notin StatusReads}

NoData == ErrorResult("NO_DATA")
NotFullySynced == ErrorResult("DATA_NOT_FULLY_SYNCED")
InvalidProjectOrAsset == ErrorResult("INVALID_PROJECT_OR_ASSET")

KnownAssets == {tokens[i].id : i \in DOMAIN tokens}
KnownProjects == {projects[i] : i \in DOMAIN projects}

ArgsValid == args.assetId \in KnownAssets /\ args.projectId \in KnownProjects

(* C1, as stated: the sync status never has isSynced = true while          *)
(* latestTimestamp is undefined (an empty storage gives isSynced = false). *)
C1_NeverSyncedWithoutTimestamp ==
    timings.resolved =>
        ~(timings.isSynced /\ timings.latestTimestamp = NoTimestamp)

(* C1, amended: isSynced is decided by the mismatch count alone; when both *)
(* reads saw a storage without any aggregated row (matching = 0,           *)
(* different = 0, no latest timestamp) getDataTimings returns              *)
(* {latestTimestamp: undefined, isSynced: true}, and the operation that    *)
(* asked reports NO_DATA.                                                  *)
C1_EmptyStorageIsSyncedNoData ==
    (/\ timings.resolved
     /\ counts.matching = 0
     /\ counts.different = 0
     /\ timings.latestTimestamp = NoTimestamp)
    => /\ timings.isSynced
       /\ timings.syncedReportsAmount = 0
       /\ timings.unsyncedReportsAmount = 0
       /\ pc = "done"
       /\ result = NoData

C1_Witness ==
    /\ statusRepo = EmptyStatus
    /\ timings.resolved
    /\ counts = [matching |-> 0, different |-> 0]
    /\ timings.latestTimestamp = NoTimestamp
    /\ timings.isSynced
    /\ result = NoData

(* C2: for every pair of counts findCountsForHash resolved with, the sync  *)
(* status has isSynced = true exactly when different = 0, whatever         *)
(* matching is.                                                            *)
C2_SyncedIffNoMismatch ==
    timings.resolved =>
        /\ timings.isSynced <=> (counts.different = 0)
        /\ timings.syncedReportsAmount = counts.matching
        /\ timings.unsyncedReportsAmount = counts.different

C2_Witness ==
    /\ timings.resolved
    /\ counts = [matching |-> 5, different |-> 2]
    /\ ~timings.isSynced
    /\ timings.latestTimestamp = 1000

(* C3: the asset operation called with an unknown asset id or an unknown   *)
(* project id returns INVALID_PROJECT_OR_ASSET and has issued no storage   *)
(* call at all: no sync-status read and no report fetch.                   *)
C3_InvalidBeforeAnyStorageCall ==
    (op = "asset" /\ ~ArgsValid) =>
        /\ pc = "done"
        /\ result = InvalidProjectOrAsset
        /\ calls = <<>>
        /\ fetchState = <<>>
        /\ ~timings.resolved
        /\ counts = NoCounts

C3_Witness ==
    /\ op = "asset"
    /\ args.projectId \in KnownProjects
    /\ args.assetId = UnknownAsset
    /\ result = InvalidProjectOrAsset
    /\ statusRepo.matching = 5

(* C4: in each public operation, a sync status without latestTimestamp     *)
(* makes the operation return NO_DATA, whatever isSynced and the option    *)
(* errorOnUnsyncedDetailedTvl are.                                         *)
C4_NoDataTakesPrecedence ==
    (timings.resolved /\ timings.latestTimestamp = NoTimestamp) =>
        /\ pc = "done"
        /\ result = NoData

C4_Witness ==
    /\ op = "breakdown"
    /\ timings.resolved
    /\ timings.latestTimestamp = NoTimestamp
    /\ ~timings.isSynced
    /\ options.errorOnUnsyncedDetailedTvl
    /\ result = NoData

(* C5: an operation returns DATA_NOT_FULLY_SYNCED if and only if a latest  *)
(* timestamp exists, isSynced is false and errorOnUnsyncedDetailedTvl is   *)
(* true; with the option false an unsynced request with data goes on to a  *)
(* success result (when none of its fetches fails).                        *)
C5_NotFullySyncedIff ==
    /\ (result = NotFullySynced) <=>
            /\ timings.resolved
            /\ timings.latestTimestamp # NoTimestamp
            /\ ~timings.isSynced
            /\ options.errorOnUnsyncedDetailedTvl
    /\ (/\ pc = "done"
        /\ timings.resolved
        /\ timings.latestTimestamp # NoTimestamp
        /\ ~timings.isSynced
        /\ ~options.errorOnUnsyncedDetailedTvl
        /\ \A i \in DOMAIN fetchState : fetchState[i] # "failed")
       => result.result = "success"

C5_Witness ==
    /\ pc = "done"
    /\ op = "tvl"
    /\ timings.latestTimestamp = 1000
    /\ ~timings.isSynced
    /\ ~options.errorOnUnsyncedDetailedTvl
    /\ result.result = "success"

(* C6: no data fetch is started before both sync-status reads completed,   *)
(* none is started in a request that ends in NO_DATA or                    *)
(* DATA_NOT_FULLY_SYNCED, and the fetches of a request are started all     *)
(* together, after the gate has passed.                                    *)
C6_FetchesOnlyAfterGate ==
    /\ DataCalls # {} =>
            /\ Len(calls) >= 2
            /\ calls[1].name = "findCountsForHash"
            /\ calls[2].name = "findLatestTimestamp"
            /\ \A k \in DataCalls : k > 2
            /\ counts # NoCounts
            /\ timings.resolved
            /\ timings.latestTimestamp # NoTimestamp
            /\ timings.isSynced \/ ~options.errorOnUnsyncedDetailedTvl
            /\ Cardinality(DataCalls) = (IF op = "tvl" THEN 4 ELSE 3)
            /\ Len(fetchState) = Cardinality(DataCalls)
    /\ result \in {NoData, NotFullySynced} =>
            /\ DataCalls = {}
            /\ fetchState = <<>>

C6_Witness ==
    /\ pc = "fetch"
    /\ op = "tvl"
    /\ Cardinality(DataCalls) = 4
    /\ \A i \in DOMAIN fetchState : fetchState[i] = "pending"

(* C7: when one of the concurrently issued fetches fails, in any           *)
(* interleaving with the completion of the others, the operation fails     *)
(* with the storage failure: no success result, no typed error result.     *)
C7_FailFast ==
    (\E i \in DOMAIN fetchState : fetchState[i] = "failed") =>
        /\ pc = "done"
        /\ result = Thrown

C7_Witness ==
    /\ op = "tvl"
    /\ Len(arrival) = 4
    /\ fetchState[arrival[4]] = "failed"
    /\ \A k \in 1..3 : fetchState[arrival[k]] = "done"
    /\ result = Thrown

(* the success result computed from the storage contents, role by role *)
ExpectedSuccess ==
    LET fetches == fetchesOf(op, args, timings.latestTimestamp)
    IN  successOf(op, args,
                  [i \in DOMAIN fetches |-> StorageRead(db, fetches[i])],
                  timings.latestTimestamp)

(* C8: for fixed storage contents the success result of an operation is    *)
(* the same for every order in which its fetches complete: each fetch      *)
(* result is bound to its own role.                                        *)
C8_ResultIndependentOfArrival ==
    (pc = "done" /\ result.result = "success") => result = ExpectedSuccess

C8_Witness ==
    /\ pc = "done"
    /\ op = "tvl"
    /\ db = SampleDb
    /\ result.result = "success"
    /\ arrival = <<4, 2, 1, 3>>

----------------------------------------------------------------------------
(* Properties of the reconciliation pipeline, checked under SpecFill *)

SyntheticProjectIds == {"ALL", "BRIDGES", "LAYER2S"}

(* the keys a filled series is expected for *)
ExpectedKeys ==
    IF fout.kind = "aggregated" THEN KnownProjects \cup SyntheticProjectIds
    ELSE {"p1"}

(* the filled series of a key at a resolution: rows (timestamp, amount, usd) *)
FilledSeries(R, key) ==
    IF fout.kind = "aggregated"
    THEN projectChart(fout.grouped[R], key)
    ELSE [k \in DOMAIN fout.data[R].data |->
             <<fout.data[R].data[k][1],
               fout.data[R].data[k][2].units,
               fout.data[R].data[k][3]>>]

(* the rows handed in for a key at a resolution that fall on a timestamp *)
SourceRows(R, key, ts) ==
    SelectSeq(fin[R], LAMBDA r : r.projectId = key /\ r.timestamp = ts)

SlotCount(R) ==
    (fin.latestTimestamp - minTimestamp(R, fin.latestTimestamp)) \div step(R) + 1

StrictlyAscending(series) ==
    \A k \in 1..(Len(series) - 1) : series[k][1] < series[k + 1][1]

(* the charts of the response are the filled series of the real projects *)
ResponseIsFilledSeries ==
    fout.kind = "aggregated" =>
        /\ DOMAIN fout.data = KnownProjects
        /\ \A p \in KnownProjects, R \in Resolutions :
               fout.data[p][R] = FilledSeries(R, p)

C10_PlaceholdersAndValues ==
    fout # NoFill =>
        /\ ResponseIsFilledSeries
        /\ \A R \in Resolutions, key \in ExpectedKeys :
            LET series == FilledSeries(R, key)
                slts == slots(R, fin.latestTimestamp)
            IN  /\ Len(series) = Len(slts)
                /\ \A k \in DOMAIN slts :
                    LET source == SourceRows(R, key, slts[k])
                    IN  /\ Len(source) = 0 =>
                               series[k] = <<slts[k], 0, 0>>
                        /\ Len(source) = 1 =>
                               series[k] = <<slts[k], source[1].valueAsset,
                                             source[1].valueUsd>>
        /\ (/\ fin.latestTimestamp = 1000
            /\ fin.hourly = <<AggRow("p1", "CBV", 999, 5, 50)>>)
           => fout.data["p1"].hourly =
                  << <<998, 0, 0>>, <<999, 5, 50>>, <<1000, 0, 0>> >>

C10_Witness ==
    /\ fout # NoFill
    /\ fin.kind = "aggregated"
    /\ fin.latestTimestamp = 1000
    /\ fin.hourly = <<AggRow("p1", "CBV", 999, 5, 50)>>
    /\ fout.data["p1"].hourly =
           << <<998, 0, 0>>, <<999, 5, 50>>, <<1000, 0, 0>> >>

(* the sum of a field over the rows of a list, whatever their order *)
TotalAsset(rows) == SumOf([i \in DOMAIN rows |-> rows[i].valueAsset])
TotalUsd(rows) == SumOf([i \in DOMAIN rows |-> rows[i].valueUsd])

LatestRowsOf(p, a) ==
    SelectSeq(fin.latest, LAMBDA r : r.projectId = p /\ r.assetId = a)

(* C11: rows sharing (key, timestamp), or (project, asset) in the latest   *)
(* snapshot, and differing in valueType are reduced to one entry holding   *)
(* the sums of their asset amounts and usd values, for every order of the  *)
(* input rows: CBV usd = 30 and EBV usd = 20 at t = 1000 give usd = 50.    *)
C11_RowsOfOneSlotAreSummed ==
    fout # NoFill =>
        /\ \A R \in Resolutions, key \in ExpectedKeys :
            LET series == FilledSeries(R, key)
                slts == slots(R, fin.latestTimestamp)
            IN  /\ Len(series) = Len(slts)
                /\ \A k \in DOMAIN slts :
                    LET source == SourceRows(R, key, slts[k])
                    IN  series[k] = <<slts[k], TotalAsset(source),
                                      TotalUsd(source)>>
        /\ fout.kind = "aggregated" =>
            \A p \in KnownProjects :
                LET assets == {fin.latest[i].assetId :
                                  i \in {j \in DOMAIN fin.latest :
                                            fin.latest[j].projectId = p}}
                IN  /\ DOMAIN fout.data[p].tokens = assets
                    /\ \A a \in assets :
                        fout.data[p].tokens[a] =
                            [valueAsset |-> TotalAsset(LatestRowsOf(p, a)),
                             valueUsd   |-> TotalUsd(LatestRowsOf(p, a))]
        /\ (/\ fout.kind = "aggregated"
            /\ fin.latestTimestamp = 1000
            /\ fin.hourly \in
                 { << AggRow("p1", "CBV", 1000, 3, 30),
                      AggRow("p1", "EBV", 1000, 2, 20) >>,
                   << AggRow("p1", "EBV", 1000, 2, 20),
                      AggRow("p1", "CBV", 1000, 3, 30) >> })
           => fout.data["p1"].hourly[3] = <<1000, 5, 50>>

C11_Witness ==
    /\ fout # NoFill
    /\ fin.kind = "aggregated"
    /\ fin.latestTimestamp = 1000
    /\ fin.hourly = << AggRow("p1", "EBV", 1000, 2, 20),
                       AggRow("p1", "CBV", 1000, 3, 30) >>
    /\ Len(fout.data["p1"].hourly) = 3
    /\ fout.data["p1"].hourly[3] = <<1000, 5, 50>>

(* the two value types of one asset of the latest snapshot, summed *)
C11_LatestWitness ==
    /\ fout # NoFill
    /\ fin.latest = << ReportRow("p1", "a1", "EBV", 1000, 2, 20),
                       ReportRow("p1", "a1", "CBV", 1000, 3, 30) >>
    /\ fout.data["p1"].tokens["a1"] = [valueAsset |-> 5, valueUsd |-> 50]

BreakdownCategories == {"canonical", "native", "external"}

(* the entries a source has for a project, in the order of the source *)
EntriesOf(source, p) == SelectSeq(source, LAMBDA e : e.projectId = p)

(* C12: the breakdowns mapping has a key for every project of the          *)
(* configured list, also for one with no entry in any source (three empty  *)
(* lists), and no key for a project id outside the list even when the      *)
(* sources hold entries for it.                                            *)
C12_KeysAreTheConfiguredProjects ==
    fout # NoFill =>
        /\ DOMAIN fout.data.breakdowns = KnownProjects
        /\ UnknownProject \notin DOMAIN fout.data.breakdowns
        /\ \A p \in KnownProjects :
            /\ DOMAIN fout.data.breakdowns[p] = BreakdownCategories
            /\ (\A c \in BreakdownCategories :
                   EntriesOf(fout.sources[c], p) = <<>>)
               => \A c \in BreakdownCategories :
                      fout.data.breakdowns[p][c] = <<>>

C12_Witness ==
    /\ fout # NoFill
    /\ fin.latest = << ReportRow(UnknownProject, "a1", "EBV", 1000, 9, 90),
                       ReportRow("p1", "a1", "NMV", 1000, 1, 10) >>
    /\ \E i \in DOMAIN fout.sources.external :
           fout.sources.external[i].projectId = UnknownProject
    /\ "p2" \in DOMAIN fout.data.breakdowns
    /\ \A c \in BreakdownCategories : fout.data.breakdowns["p2"][c] = <<>>

(* C13: each category list of a project holds exactly the entries its own  *)
(* source has for that project: a project found only in the native source  *)
(* has empty canonical and external and non-empty native, and an asset     *)
(* found in several sources has one entry in each of them, with that       *)
(* source's amounts, never a sum across categories.                        *)
C13_CategoriesHoldTheirOwnEntries ==
    fout # NoFill =>
        /\ \A p \in KnownProjects, c \in BreakdownCategories :
               fout.data.breakdowns[p][c] = EntriesOf(fout.sources[c], p)
        /\ \A p \in KnownProjects :
            LET rowsOf(type) ==
                    SelectSeq(fin.latest,
                              LAMBDA r : r.projectId = p /\ r.valueType = type)
                b == fout.data.breakdowns[p]
            IN  /\ Len(b.external) = Len(rowsOf("EBV"))
                /\ Len(b.native) = Len(rowsOf("NMV"))
                /\ \A k \in DOMAIN b.external :
                       /\ b.external[k].amount = rowsOf("EBV")[k].valueAsset
                       /\ b.external[k].usdValue = rowsOf("EBV")[k].valueUsd
                /\ \A k \in DOMAIN b.native :
                       /\ b.native[k].amount = rowsOf("NMV")[k].valueAsset
                       /\ b.native[k].usdValue = rowsOf("NMV")[k].valueUsd
                /\ (fin.prices = <<>>) => b.canonical = <<>>

C13_Witness ==
    /\ fout # NoFill
    /\ fin.latest = << ReportRow("p1", "a1", "EBV", 1000, 2, 20),
                       ReportRow("p1", "a1", "NMV", 1000, 1, 10) >>
    /\ fin.balances = << BalanceRow("p1", "a1", 1000, 3) >>
    /\ fin.prices # <<>>
    /\ fout.data.breakdowns["p1"].external =
           << [projectId |-> "p1", assetId |-> "a1", amount |-> 2,
               usdValue |-> 20] >>
    /\ fout.data.breakdowns["p1"].native =
           << [projectId |-> "p1", assetId |-> "a1", amount |-> 1,
               usdValue |-> 10] >>
    /\ fout.data.breakdowns["p1"].canonical =
           << [projectId |-> "p1", assetId |-> "a1", amount |-> 3,
               usdValue |-> 30] >>

(* Scenario E: a project found only in the native source *)
C13_NativeOnlyWitness ==
    /\ fout # NoFill
    /\ fin.latest = << ReportRow("p2", "a1", "NMV", 1000, 4, 40) >>
    /\ fout.data.breakdowns["p2"].canonical = <<>>
    /\ fout.data.breakdowns["p2"].external = <<>>
    /\ fout.data.breakdowns["p2"].native # <<>>

(* the project ids that the rows handed to the handler refer to *)
ReferencedProjects ==
    UNION { {fin[f][i].projectId : i \in DOMAIN fin[f]} :
                f \in {"hourly", "sixHourly", "daily", "latest"} }

(* C14: the response of getDetailedTvlApiResponse has the configured real  *)
(* project ids as its keys and no other: a project id outside the list     *)
(* given to the response generator is left out even when rows refer to it, *)
(* and the synthetic ids ALL, BRIDGES and LAYER2S, for which gap filling   *)
(* is run along with the real ids, are not given to the generator.         *)
C14_OnlyConfiguredProjectsInResponse ==
    (fout # NoFill /\ fout.kind = "aggregated") =>
        /\ DOMAIN fout.data = KnownProjects
        /\ UnknownProject \notin DOMAIN fout.data
        /\ SyntheticProjectIds \cap DOMAIN fout.data = {}
        /\ \A R \in Resolutions :
               /\ DOMAIN fout.grouped[R] = Range(allProjectIdsToSeekFor)
               /\ KnownProjects \cup SyntheticProjectIds
                      \subseteq DOMAIN fout.grouped[R]

C14_Witness ==
    /\ fout # NoFill
    /\ fout.kind = "aggregated"
    /\ UnknownProject \in ReferencedProjects
    /\ "ALL" \in ReferencedProjects
    /\ UnknownProject \notin DOMAIN fout.data
    /\ "ALL" \notin DOMAIN fout.data
    /\ "ALL" \in DOMAIN fout.grouped.hourly

(* the states the status table can be in: it has a latest timestamp *)
(* exactly when it has a row                                          *)
StorageStates ==
    { s \in [matching : 0..7, different : 0..7,
             latest : StatusTimestamps \cup {NoTimestamp}] :
          (s.matching + s.different = 0) <=> (s.latest = NoTimestamp) }

(* the (isSynced, latestTimestamp) pair that getDataTimings gives on a *)
(* storage that stays in state s                                       *)
PairOf(s) ==
    LET t == getDataTimings(findCountsForHash(s), findLatestTimestamp(s))
    IN  <<t.isSynced, t.latestTimestamp>>

(* C15 as stated: the (isSynced, latestTimestamp) pair one call of         *)
(* getDataTimings returns is the pair of a single state of the storage,    *)
(* also when rows are written between its two reads.                       *)
C15_PairOfOneStorageState ==
    timings.resolved =>
        \E s \in StorageStates :
            PairOf(s) = <<timings.isSynced, timings.latestTimestamp>>

(* C15 as amended: getDataTimings only reads; its counts, and so isSynced, *)
(* are those of the storage at its first read and its latestTimestamp is   *)
(* that of the storage at its second read, so that the pair is the pair of *)
(* one storage state when the counts are the same at both reads; a write   *)
(* in between is a step of another process, not of the request.            *)
C15_EachReadAtItsOwnTime ==
    [][ /\ (pc = "counts" /\ pc' = "latest")
            => /\ statusRepo' = statusRepo
               /\ counts' = findCountsForHash(statusRepo)
        /\ (pc = "latest" /\ pc' # "latest" /\ timings'.resolved)
            => /\ statusRepo' = statusRepo
               /\ timings'.unsyncedReportsAmount = counts.different
               /\ timings'.isSynced = (counts.different = 0)
               /\ timings'.latestTimestamp = findLatestTimestamp(statusRepo)
               /\ (counts = findCountsForHash(statusRepo))
                    => <<timings'.isSynced, timings'.latestTimestamp>>
                           = PairOf(statusRepo)
        /\ (pc \in {"counts", "latest"} /\ statusRepo' # statusRepo)
            => UNCHANGED <<pc, counts, timings, calls, result>>
      ]_vars

(* a pair torn by a deleteAll between the reads: unsynced, no timestamp *)
C15_Witness ==
    /\ timings.resolved
    /\ ~timings.isSynced
    /\ timings.latestTimestamp = NoTimestamp
    /\ counts.different > 0
    /\ statusRepo = EmptyStatus
    /\ result = NoData

(* the number of slots from minTimestamp(R) up to the request's timestamp *)
SlotCountAt(R) ==
    (timings.latestTimestamp - minTimestamp(R, timings.latestTimestamp))
        \div step(R) + 1

(* the fetches whose argument is the latest timestamp itself *)
AtLatestFetches ==
    {"reportRepository.getByTimestamp", "balanceRepository.getByTimestamp",
     "priceRepository.getByTimestamp"}

HourlyFetches == {"getHourlyWithAnyType", "getHourlyForDetailed"}
SixHourlyFetches == {"getSixHourlyWithAnyType", "getSixHourlyForDetailed"}

(* the timestamp of the last row of a chart, rows being (timestamp, ...) *)
LastTimestamp(chart) == chart[Len(chart)][1]

(* C16: within one request findLatestTimestamp is called once, and the     *)
(* value it gave is the one behind the hourly and six-hourly lower bounds, *)
(* the latest-snapshot, balance and price fetches, the upper bound of gap  *)
(* filling and the dataTimestamp of the breakdown response, whatever the   *)
(* storage's latest timestamp has become in the meantime.                  *)
C16_OneLatestTimestampPerRequest ==
    /\ Cardinality({k \in DOMAIN calls :
                       calls[k].name = "findLatestTimestamp"}) <= 1
    /\ timings.resolved =>
        /\ Cardinality({k \in DOMAIN calls :
                           calls[k].name = "findLatestTimestamp"}) = 1
        /\ \A k \in DataCalls :
            /\ calls[k].name \in AtLatestFetches
                 => calls[k].timestamp = timings.latestTimestamp
            /\ calls[k].name \in HourlyFetches
                 => calls[k].timestamp =
                        getHourlyMinTimestamp(timings.latestTimestamp)
            /\ calls[k].name \in SixHourlyFetches
                 => calls[k].timestamp =
                        getSixHourlyMinTimestamp(timings.latestTimestamp)
    /\ (result.result = "success" /\ op = "breakdown")
          => result.data.dataTimestamp = timings.latestTimestamp
    /\ (result.result = "success" /\ op = "tvl")
          => \A p \in DOMAIN result.data :
                 /\ Len(result.data[p].hourly) = SlotCountAt("hourly")
                 /\ LastTimestamp(result.data[p].hourly)
                        = timings.latestTimestamp
    /\ (result.result = "success" /\ op = "asset")
          => /\ Len(result.data.hourly.data) = SlotCountAt("hourly")
             /\ LastTimestamp(result.data.hourly.data)
                    = timings.latestTimestamp

(* the storage's latest timestamp has advanced past the one of the request *)
C16_Witness ==
    /\ result.result = "success"
    /\ op = "breakdown"
    /\ timings.latestTimestamp = 1000
    /\ findLatestTimestamp(statusRepo) = 1001
    /\ result.data.dataTimestamp = 1000
    /\ \A k \in DataCalls : calls[k].timestamp = 1000

(* C17: after any sequence of saveData and deleteAll calls the            *)
(* cached_data table holds at most one row, of id 0, whose data is that of *)
(* the most recent saveData; it holds no row when no saveData has happened *)
(* since the last deleteAll; getData returns that data, or undefined when  *)
(* there is no row.                                                        *)
C17_SingleRowCache ==
    /\ Cardinality(cache.table) <= 1
    /\ \A row \in cache.table : row.id = 0 /\ row.data = cache.lastSaved
    /\ (cache.table = {}) <=> (cache.lastSaved = Undefined)
    /\ cache.returned.method = "getData"
         => cache.returned.value = cache.lastSaved
    /\ cache.returned.method = "saveData"
         => cache.returned.value = 0 /\ Cardinality(cache.table) = 1
    /\ cache.returned.method = "deleteAll"
         => cache.table = {} /\ cache.returned.value \in {0, 1}

(* a second saveData, later than the first, has replaced the row *)
C17_Witness ==
    /\ cache.now = 3
    /\ cache.table = {[id |-> 0, unix_timestamp |-> "2", data |-> "d2"]}
    /\ cache.lastSaved = "d2"
    /\ cache.returned = [method |-> "getData", value |-> "d2"]

(* C18: the script calls submitL2Output only in an iteration of its loop  *)
(* that found no Bonded event of its address, and only after isValidator   *)
(* has returned true and nextValidator has returned its address or the     *)
(* public-round address; an iteration that finds exactly one Bonded event  *)
(* handles challenges and ends the loop without submitting, and one that   *)
(* finds more than one aborts with an error without submitting.            *)
C18_SubmitsOnlyWhenUnbondedValidatorInTurn ==
    /\ kroma.submittedNow =>
          /\ kroma.events = 0
          /\ kroma.sawValidator
          /\ kroma.proposer \in {myAddr, VALIDATOR_PUBLIC_ROUND_ADDRESS}
    /\ kroma.pc \in {"submitL2Output", "txWait"} => kroma.submittedNow
    /\ kroma.events = 1 =>
          /\ ~kroma.submittedNow
          /\ kroma.pc \in {"handleChallenges", "stopped", "failed"}
          /\ kroma.pc = "failed" => kroma.error = "rejected"
    /\ kroma.pc = "stopped" =>
          /\ kroma.events = 1
          /\ kroma.handledChallenges
          /\ kroma.nextStep = "stop"
    /\ kroma.events > 1 =>
          /\ ~kroma.submittedNow
          /\ kroma.pc = "failed"
          /\ kroma.error = "multiple proposals"

(* the script has submitted, found its one Bonded event and stopped *)
C18_Witness ==
    /\ kroma.submits = 1
    /\ kroma.events = 1
    /\ kroma.pc = "stopped"
    /\ kroma.handledChallenges

(* two Bonded events: the script has aborted *)
C18_AbortWitness ==
    /\ kroma.events = 2
    /\ kroma.pc = "failed"
    /\ kroma.submits = 0

====
